---- MODULE Spec2Model ----
(***************************************************************************)
(* hearth: Tuya v3.3 frame codec (src/src/tuya_protocol.rs) and the        *)
(* connection layer over one shared TCP socket                             *)
(* (src/src/tuya_connection.rs).                                           *)
(*                                                                         *)
(* Representation.  A byte is a number in 0..255 and a buffer is a         *)
(* sequence of bytes; offset i of the Rust slice is element i+1.  A u32 is *)
(* kept as its four big-endian bytes <<b3, b2, b1, b0>> (a "word"), so     *)
(* that the full 32-bit range, wrap-around included, is exact.             *)
(***************************************************************************)
EXTENDS Integers, Sequences, FiniteSets, TLC

Byte == 0..255

----------------------------------------------------------------------------
(* Words: u32 values as four big-endian bytes.                             *)

\* u32::to_be_bytes of a number below 2^16 (all the literals of the code that
\* are built from a number fit).
Word(n) == <<0, 0, n \div 256, n % 256>>

\* usize::to_be_bytes of a buffer length (below 2^24 in every buffer here).
LenWord(n) == <<0, (n \div 65536) % 256, (n \div 256) % 256, n % 256>>

\* u32::from_be_bytes([data[off], .., data[off + 3]])
U32At(data, off) == <<data[off + 1], data[off + 2], data[off + 3], data[off + 4]>>

\* Any length of 2^24 or more exceeds every buffer of the model; it is kept as
\* this one value.
HugeLen == 256 * 256 * 256

\* `u32 as usize` (64-bit target: no truncation).
AsUsize(w) == IF w[1] = 0 THEN (w[2] * 256 + w[3]) * 256 + w[4] ELSE HugeLen

\* u32 wrapping add of 1 (AtomicU32::fetch_add wraps around on overflow).
WrappingInc(w) ==
    IF w[4] < 255 THEN <<w[1], w[2], w[3], w[4] + 1>>
    ELSE IF w[3] < 255 THEN <<w[1], w[2], w[3] + 1, 0>>
    ELSE IF w[2] < 255 THEN <<w[1], w[2] + 1, 0, 0>>
    ELSE IF w[1] < 255 THEN <<w[1] + 1, 0, 0, 0>>
    ELSE <<0, 0, 0, 0>>

\* a < b as unsigned 32-bit numbers.
WordLess(a, b) ==
    \E i \in 1..4 : a[i] < b[i] /\ \A j \in 1..(i - 1) : a[j] = b[j]

\* Rust slice data[a..b].
Slice(data, a, b) == SubSeq(data, a + 1, b)

----------------------------------------------------------------------------
(* CRC-32 (crc32fast::hash: the zlib / IEEE 802.3 polynomial, reflected).  *)

XorBit(a, b, i) == (((a \div (2 ^ i)) + (b \div (2 ^ i))) % 2) * (2 ^ i)

XorNibble ==
    [a \in 0..15 |-> [b \in 0..15 |->
        XorBit(a, b, 0) + XorBit(a, b, 1) + XorBit(a, b, 2) + XorBit(a, b, 3)]]

XorByte ==
    [a \in Byte |-> [b \in Byte |->
        XorNibble[a \div 16][b \div 16] * 16 + XorNibble[a % 16][b % 16]]]

Xor8(a, b) == XorByte[a][b]

XorWord(a, b) == <<Xor8(a[1], b[1]), Xor8(a[2], b[2]), Xor8(a[3], b[3]), Xor8(a[4], b[4])>>

ShiftRight1(w) ==
    << w[1] \div 2,
       (w[1] % 2) * 128 + w[2] \div 2,
       (w[2] % 2) * 128 + w[3] \div 2,
       (w[3] % 2) * 128 + w[4] \div 2 >>

\* The reflected polynomial 0xEDB88320.
CrcPoly == <<237, 184, 131, 32>>

RECURSIVE CrcBits(_, _)
CrcBits(w, k) ==
    IF k = 0 THEN w
    ELSE CrcBits(IF w[4] % 2 = 1 THEN XorWord(CrcPoly, ShiftRight1(w))
                                 ELSE ShiftRight1(w), k - 1)

CrcTable == [n \in Byte |-> CrcBits(<<0, 0, 0, n>>, 8)]

\* One byte of input: crc = table[(crc ^ b) & 0xFF] ^ (crc >> 8).
CrcStep(c, b) ==
    LET t == CrcTable[Xor8(c[4], b)]
    IN  <<t[1], Xor8(t[2], c[1]), Xor8(t[3], c[2]), Xor8(t[4], c[3])>>

RECURSIVE CrcRun(_, _, _)
CrcRun(c, data, i) ==
    IF c[1] >= 0 /\ i > Len(data) THEN c ELSE CrcRun(CrcStep(c, data[i]), data, i + 1)

crc32(data) == XorWord(CrcRun(<<255, 255, 255, 255>>, data, 1), <<255, 255, 255, 255>>)

----------------------------------------------------------------------------
(* Constants of the wire format.                                           *)

AES_BLOCK_SIZE == 16
HEADER_SIZE == 16
CRC_SIZE == 4
SUFFIX_SIZE == 4
FOOTER_SIZE == CRC_SIZE + SUFFIX_SIZE
RETCODE_SIZE == 4

\* 0x000055AA and 0x0000AA55
PREFIX == <<0, 0, 85, 170>>
SUFFIX == <<0, 0, 170, 85>>

CMD_CONTROL == 7
CMD_STATUS == 8
CMD_HEART_BEAT == 9
CMD_DP_QUERY == 10
CMD_UPDATEDPS == 18

\* b"3.3\0\0\0\0\0\0\0\0\0\0\0\0"
VERSION_HEADER == <<51, 46, 51, 0, 0, 0, 0, 0, 0, 0, 0, 0, 0, 0, 0>>

\* A table that has lost the bulk-update command.
NoHeaderCmdsShort == {CMD_DP_QUERY, CMD_HEART_BEAT}

NO_HEADER_CMDS == {CMD_DP_QUERY, CMD_UPDATEDPS, CMD_HEART_BEAT}

----------------------------------------------------------------------------
(* Encryption.  AES-128 is a keyed bijection on 16-byte blocks; ECB applies *)
(* it to every block independently.  The block cipher of the aes crate is  *)
(* replaced by another keyed bijection on 16-byte blocks (byte reversal,   *)
(* an offset, and a XOR with the key); the padding is PKCS#7 as the        *)
(* block-padding crate does it.                                            *)

encrypt_block(p, key) ==
    [i \in 1..AES_BLOCK_SIZE |-> Xor8((p[AES_BLOCK_SIZE + 1 - i] + i) % 256, key[i])]

decrypt_block(c, key) ==
    [j \in 1..AES_BLOCK_SIZE |->
        LET i == AES_BLOCK_SIZE + 1 - j
        IN  (Xor8(c[i], key[i]) + 256 - i) % 256]

\* data[16 * (n - 1) .. 16 * n]
BlockOf(data, n) == SubSeq(data, AES_BLOCK_SIZE * (n - 1) + 1, AES_BLOCK_SIZE * n)

RECURSIVE EcbEncrypt(_, _, _)
EcbEncrypt(buf, key, n) ==
    IF n * AES_BLOCK_SIZE > Len(buf) THEN <<>>
    ELSE encrypt_block(BlockOf(buf, n), key) \o EcbEncrypt(buf, key, n + 1)

RECURSIVE EcbDecrypt(_, _, _)
EcbDecrypt(buf, key, n) ==
    IF n * AES_BLOCK_SIZE > Len(buf) THEN <<>>
    ELSE decrypt_block(BlockOf(buf, n), key) \o EcbDecrypt(buf, key, n + 1)

\* A padding of zero bytes.
ZeroPad(plaintext, padded_len) ==
    [i \in 1..padded_len |-> IF i <= Len(plaintext) THEN plaintext[i] ELSE 0]

\* Pkcs7 padding of the buffer of padded_len bytes whose first pos bytes are
\* the plaintext: every padding byte carries the padding length.
Pkcs7Pad(plaintext, padded_len) ==
    [i \in 1..padded_len |->
        IF i <= Len(plaintext) THEN plaintext[i] ELSE padded_len - Len(plaintext)]

\* A buffer rounded up to the next multiple of 16 only when the plaintext is
\* not one already: a plaintext of 0, 16, 32.. bytes gets no padding block.
encrypt_payload_round_up(plaintext, local_key) ==
    LET padded_len == ((Len(plaintext) + AES_BLOCK_SIZE - 1) \div AES_BLOCK_SIZE)
                          * AES_BLOCK_SIZE
        buf == Pkcs7Pad(plaintext, padded_len)
    IN  EcbEncrypt(buf, local_key, 1)

encrypt_payload(plaintext, local_key) ==
    LET padded_len == (Len(plaintext) \div AES_BLOCK_SIZE + 1) * AES_BLOCK_SIZE
        buf == Pkcs7Pad(plaintext, padded_len)
    IN  EcbEncrypt(buf, local_key, 1)

\* An unpad that trusts the last byte and does not look at the other
\* padding bytes.
Pkcs7UnpadLastByte(buf) ==
    IF Len(buf) = 0 THEN [ok |-> FALSE, bytes |-> <<>>]
    ELSE LET n == buf[Len(buf)]
         IN  IF n = 0 \/ n > AES_BLOCK_SIZE
             THEN [ok |-> FALSE, bytes |-> <<>>]
             ELSE [ok |-> TRUE, bytes |-> SubSeq(buf, 1, Len(buf) - n)]

\* Pkcs7::unpad of the decrypted blocks: the last byte n must be in 1..16 and
\* the n last bytes must all be n.
Pkcs7Unpad(buf) ==
    IF Len(buf) = 0 THEN [ok |-> FALSE, bytes |-> <<>>]
    ELSE LET n == buf[Len(buf)]
         IN  IF n = 0 \/ n > AES_BLOCK_SIZE
             THEN [ok |-> FALSE, bytes |-> <<>>]
             ELSE IF \E i \in (Len(buf) - n + 1)..Len(buf) : buf[i] # n
             THEN [ok |-> FALSE, bytes |-> <<>>]
             ELSE [ok |-> TRUE, bytes |-> SubSeq(buf, 1, Len(buf) - n)]

\* Result<Vec<u8>, ProtocolError>: ok = FALSE is Err(DecryptionFailed).
decrypt_payload(ciphertext, local_key) ==
    IF Len(ciphertext) % AES_BLOCK_SIZE # 0
    THEN [ok |-> FALSE, bytes |-> <<>>]
    ELSE Pkcs7Unpad(EcbDecrypt(ciphertext, local_key, 1))

----------------------------------------------------------------------------
(* Framing.                                                                *)

\* A frame whose checksum covers the payload section only.
build_frame_crc_payload(seqno, cmd, json_payload, local_key) ==
    LET encrypted == encrypt_payload(json_payload, local_key)
        payload == IF cmd \in NO_HEADER_CMDS THEN encrypted
                   ELSE VERSION_HEADER \o encrypted
        length == LenWord(Len(payload) + FOOTER_SIZE)
        frame == PREFIX \o seqno \o Word(cmd) \o length \o payload
    IN  frame \o crc32(payload) \o SUFFIX

\* A frame whose length field counts the payload section without the footer.
build_frame_len_payload(seqno, cmd, json_payload, local_key) ==
    LET encrypted == encrypt_payload(json_payload, local_key)
        payload == IF cmd \in NO_HEADER_CMDS THEN encrypted
                   ELSE VERSION_HEADER \o encrypted
        length == LenWord(Len(payload))
        frame == PREFIX \o seqno \o Word(cmd) \o length \o payload
    IN  frame \o crc32(frame) \o SUFFIX

\* A frame whose length field counts the whole frame, header included.
build_frame_len_total(seqno, cmd, json_payload, local_key) ==
    LET encrypted == encrypt_payload(json_payload, local_key)
        payload == IF cmd \in NO_HEADER_CMDS THEN encrypted
                   ELSE VERSION_HEADER \o encrypted
        length == LenWord(HEADER_SIZE + Len(payload) + FOOTER_SIZE)
        frame == PREFIX \o seqno \o Word(cmd) \o length \o payload
    IN  frame \o crc32(frame) \o SUFFIX

build_frame(seqno, cmd, json_payload, local_key) ==
    LET encrypted == encrypt_payload(json_payload, local_key)
        payload == IF cmd \in NO_HEADER_CMDS THEN encrypted
                   ELSE VERSION_HEADER \o encrypted
        length == LenWord(Len(payload) + FOOTER_SIZE)
        frame == PREFIX \o seqno \o Word(cmd) \o length \o payload
    IN  frame \o crc32(frame) \o SUFFIX

\* Results of parse_frame: Ok(TuyaMessage) is kind "Message"; the other kinds
\* are the variants of ProtocolError; "Panic" is the abort of a slice index
\* out of range.
Message(seqno, cmd, retcode, payload) ==
    [kind |-> "Message", seqno |-> seqno, cmd |-> cmd, retcode |-> retcode,
     payload |-> payload]

PayloadTooShort == [kind |-> "PayloadTooShort"]
InvalidPrefix(w) == [kind |-> "InvalidPrefix", word |-> w]
InvalidSuffix(w) == [kind |-> "InvalidSuffix", word |-> w]
CrcMismatch(e, a) == [kind |-> "CrcMismatch", expected |-> e, actual |-> a]
DecryptionFailed == [kind |-> "DecryptionFailed"]
Panic == [kind |-> "Panic"]

ProtocolErrorKinds ==
    {"InvalidPrefix", "InvalidSuffix", "CrcMismatch", "PayloadTooShort", "DecryptionFailed"}

\* A parser that hands the undecrypted bytes over when decryption fails.
parse_payload_lenient(data, local_key, seqno, cmd, crc_offset) ==
    LET retcode == U32At(data, HEADER_SIZE)
        raw_payload == Slice(data, HEADER_SIZE + RETCODE_SIZE, crc_offset)
        d == decrypt_payload(raw_payload, local_key)
    IN  IF crc_offset < HEADER_SIZE + RETCODE_SIZE THEN Panic
        ELSE IF d.ok THEN Message(seqno, cmd, retcode, d.bytes)
        ELSE Message(seqno, cmd, retcode, raw_payload)

\* A parser without the branch of lines 212-218: what is left after the tag
\* is decrypted even when nothing is left.
parse_payload_decrypt_rest(data, local_key, seqno, cmd, crc_offset) ==
    LET retcode == U32At(data, HEADER_SIZE)
    IN  IF crc_offset < HEADER_SIZE + RETCODE_SIZE
        THEN Panic
        ELSE
        LET raw_payload == Slice(data, HEADER_SIZE + RETCODE_SIZE, crc_offset)
        IN  IF Len(raw_payload) = 0
            THEN Message(seqno, cmd, retcode, <<>>)
            ELSE
            LET ciphertext ==
                    IF Len(raw_payload) >= Len(VERSION_HEADER)
                       /\ SubSeq(raw_payload, 1, 3) = SubSeq(VERSION_HEADER, 1, 3)
                    THEN Slice(raw_payload, Len(VERSION_HEADER), Len(raw_payload))
                    ELSE raw_payload
                d == decrypt_payload(ciphertext, local_key)
            IN  IF d.ok THEN Message(seqno, cmd, retcode, d.bytes)
                ELSE DecryptionFailed

\* Lines 188-229: the part of parse_frame after the five checks.
parse_payload(data, local_key, seqno, cmd, crc_offset) ==
    LET retcode == U32At(data, HEADER_SIZE)
    IN  IF crc_offset < HEADER_SIZE + RETCODE_SIZE
        THEN Panic      \* &data[20..crc_offset] with crc_offset < 20
        ELSE
        LET raw_payload == Slice(data, HEADER_SIZE + RETCODE_SIZE, crc_offset)
        IN  IF Len(raw_payload) = 0
            THEN Message(seqno, cmd, retcode, <<>>)
            ELSE
            LET ciphertext ==
                    IF Len(raw_payload) >= Len(VERSION_HEADER)
                       /\ SubSeq(raw_payload, 1, 3) = SubSeq(VERSION_HEADER, 1, 3)
                    THEN Slice(raw_payload, Len(VERSION_HEADER), Len(raw_payload))
                    ELSE raw_payload
            IN  IF Len(ciphertext) = 0
                THEN Message(seqno, cmd, retcode, <<>>)
                ELSE LET d == decrypt_payload(ciphertext, local_key)
                     IN  IF d.ok THEN Message(seqno, cmd, retcode, d.bytes)
                         ELSE DecryptionFailed

\* A parser that verifies the checksum before it looks at the suffix.
parse_frame_crc_first(data, local_key) ==
    IF Len(data) < HEADER_SIZE + FOOTER_SIZE THEN PayloadTooShort
    ELSE
    LET prefix == U32At(data, 0)
    IN  IF prefix # PREFIX THEN InvalidPrefix(prefix)
        ELSE
        LET seqno == U32At(data, 4)
            cmd == U32At(data, 8)
            length == AsUsize(U32At(data, 12))
            total_size == HEADER_SIZE + length
        IN  IF Len(data) < total_size THEN PayloadTooShort
            ELSE
            LET suffix_offset == total_size - SUFFIX_SIZE
                suffix == U32At(data, suffix_offset)
                crc_offset == suffix_offset - CRC_SIZE
                expected_crc == U32At(data, crc_offset)
                actual_crc == crc32(Slice(data, 0, crc_offset))
            IN  IF expected_crc # actual_crc
                THEN CrcMismatch(expected_crc, actual_crc)
                ELSE IF suffix # SUFFIX THEN InvalidSuffix(suffix)
                ELSE parse_payload(data, local_key, seqno, cmd, crc_offset)

\* A parser that does not verify the checksum.
parse_frame_no_crc(data, local_key) ==
    IF Len(data) < HEADER_SIZE + FOOTER_SIZE THEN PayloadTooShort
    ELSE
    LET prefix == U32At(data, 0)
    IN  IF prefix # PREFIX THEN InvalidPrefix(prefix)
        ELSE
        LET seqno == U32At(data, 4)
            cmd == U32At(data, 8)
            length == AsUsize(U32At(data, 12))
            total_size == HEADER_SIZE + length
        IN  IF Len(data) < total_size THEN PayloadTooShort
            ELSE
            LET suffix_offset == total_size - SUFFIX_SIZE
                suffix == U32At(data, suffix_offset)
            IN  IF suffix # SUFFIX THEN InvalidSuffix(suffix)
                ELSE parse_payload(data, local_key, seqno, cmd,
                                   suffix_offset - CRC_SIZE)

parse_frame(data, local_key) ==
    IF Len(data) < HEADER_SIZE + FOOTER_SIZE THEN PayloadTooShort
    ELSE
    LET prefix == U32At(data, 0)
    IN  IF prefix # PREFIX THEN InvalidPrefix(prefix)
        ELSE
        LET seqno == U32At(data, 4)
            cmd == U32At(data, 8)
            length == AsUsize(U32At(data, 12))
            total_size == HEADER_SIZE + length
        IN  IF Len(data) < total_size THEN PayloadTooShort
            ELSE
            LET suffix_offset == total_size - SUFFIX_SIZE
                suffix == U32At(data, suffix_offset)
            IN  IF suffix # SUFFIX THEN InvalidSuffix(suffix)
                ELSE
                LET crc_offset == suffix_offset - CRC_SIZE
                    expected_crc == U32At(data, crc_offset)
                    actual_crc == crc32(Slice(data, 0, crc_offset))
                IN  IF expected_crc # actual_crc
                    THEN CrcMismatch(expected_crc, actual_crc)
                    ELSE parse_payload(data, local_key, seqno, cmd, crc_offset)

\* The JSON bodies are opaque to the codec; one representative body of each
\* builder is kept ("{}" for the query, a 16-byte body for the control
\* command, so that the ciphertext takes two blocks).
build_heartbeat_json == <<>>
build_dp_query_json == <<123, 125>>
build_control_json == <<123, 34, 100, 112, 115, 34, 58, 123, 34, 49, 34, 58, 49, 125, 125, 32>>

----------------------------------------------------------------------------
(* The connection: one TuyaConnection shared by the application callers    *)
(* (the tool handlers of server.rs, through query_dps and set_dps) and by  *)
(* the heartbeat task.  The runtime of main.rs is multi-threaded, so the   *)
(* steps of different tasks interleave at every point, not only at .await. *)

\* Bounds of the model.
MaxCalls == 2       \* send_receive calls started in one behaviour
MaxFaults == 1      \* malformed replies, connection resets and timer expiries

Apps == {"app1", "app2"}
Heartbeat == "hb"
Tasks == Apps \cup {Heartbeat}
None == "none"

\* b"0123456789abcdef", the key of the tests.
TestKey == <<48, 49, 50, 51, 52, 53, 54, 55, 56, 57, 97, 98, 99, 100, 101, 102>>

VARIABLES
    seqno,      \* conn.seqno: AtomicU32, as a word
    local_key,  \* conn.local_key
    device_id,  \* conn.device_id
    holder,     \* conn.stream: the task that owns the MutexGuard, or None
    waiters,    \* conn.stream: the tasks queued in lock().await, oldest first
    sock,       \* the TcpStream: "open", or "closed" once the peer has closed it
    tx,         \* request frames written to the socket, not yet taken by the device
    rx,         \* bytes sent by the device, not yet read: <<byte, id of the request>>
    pc,         \* where each task stands in send_receive
    call,       \* the locals of each task's current send_receive call
    last,       \* what the send_receive call that ended last returned
    ncalls,     \* history: number of calls started
    handed,     \* history: sequence numbers returned by next_seqno, in order
    written,    \* history: sequence numbers of the frames written, in order
    failed,     \* history: some exchange has failed, timed out or aborted
    faults,     \* history: malformed replies, resets and timer expiries so far
    abandoned,  \* history: ids of the calls that ended with Timeout
    fresh,      \* history: the behaviour starts at connect()
    codec,      \* the pure functions of tuya_protocol.rs applied on their own
    config,     \* main: the Config of load_config and how far start-up got
    tool        \* server: the tool call handled last and what it answered

vars == <<seqno, local_key, device_id, holder, waiters, sock, tx, rx, pc, call,
          last, ncalls, handed, written, failed, faults, abandoned, fresh, codec,
          config, tool>>

InExchange == {"write", "read_header", "read_body"}

NoCall ==
    [id |-> 0, seqno |-> Word(0), cmd |-> 0, frame |-> <<>>, buf |-> <<>>,
     header |-> <<>>, timer |-> FALSE, wrote |-> 0, reads |-> 0, grant |-> None]

\* No Message and no ProtocolError.
NoValue == [kind |-> None]

NoResult ==
    [kind |-> None, id |-> 0, seqno |-> Word(0), cause |-> None, src |-> {},
     clean |-> TRUE, wrote |-> 0, reads |-> 0, grant |-> None, frame |-> <<>>,
     val |-> NoValue]

\* The Config the running connection was made from.
Started(key) ==
    [state |-> "connected", kind |-> "toml", local_key |-> key, device_id |-> "dev",
     error |-> None]

\* No tool call has been handled.
NoTool == [name |-> None, humidity |-> 0, result |-> None]

\* The codec is not exercised on its own while the connection runs.
NoCodec ==
    [step |-> "off", key |-> TestKey, seqno |-> Word(0), cmd |-> 0, plaintext |-> <<>>,
     retcode |-> Word(0), tagged |-> FALSE, ciphertext |-> <<>>, data |-> <<>>,
     result |-> NoValue, src |-> None, accepted |-> <<>>, at |-> 0]

\* connect(): the state of a new connection.
ConnInit(first) ==
    /\ seqno = first
    /\ local_key = TestKey
    /\ device_id = "dev"
    /\ holder = None
    /\ waiters = <<>>
    /\ sock = "open"
    /\ tx = <<>>
    /\ rx = <<>>
    /\ pc = [t \in Tasks |-> "idle"]
    /\ call = [t \in Tasks |-> NoCall]
    /\ last = NoResult
    /\ ncalls = 0
    /\ handed = <<>>
    /\ written = <<>>
    /\ failed = FALSE
    /\ faults = 0
    /\ abandoned = {}
    /\ codec = NoCodec
    /\ config = Started(TestKey)
    /\ tool = NoTool

Init == ConnInit(Word(1)) /\ fresh = TRUE

\* The same connection after 2^32 - 2 calls: the counter stands at 0xFFFFFFFF.
InitWrap == ConnInit(<<255, 255, 255, 255>>) /\ fresh = FALSE

\* next_seqno: fetch_add(1) returns the previous value and stores the
\* wrapped sum.
next_seqno == [value |-> seqno, counter |-> WrappingInc(seqno)]

\* The payload each caller hands to send_receive.
PayloadOf(cmd) ==
    IF cmd = CMD_HEART_BEAT THEN build_heartbeat_json
    ELSE IF cmd = CMD_DP_QUERY THEN build_dp_query_json
    ELSE build_control_json

\* send_receive, lines 138-139: take a sequence number and build the frame.
Begin(t, cmd) ==
    /\ pc[t] = "idle"
    /\ ncalls < MaxCalls
    /\ LET n == next_seqno
       IN  /\ seqno' = n.counter
           /\ handed' = Append(handed, n.value)
           /\ call' = [call EXCEPT ![t] =
                          [NoCall EXCEPT !.id = ncalls + 1, !.seqno = n.value, !.cmd = cmd,
                                         !.frame = build_frame(n.value, cmd, PayloadOf(cmd),
                                                               local_key)]]
    /\ ncalls' = ncalls + 1
    /\ pc' = [pc EXCEPT ![t] = "lock"]
    /\ UNCHANGED <<local_key, device_id, holder, waiters, sock, tx, rx, last,
                   written, failed, faults, abandoned, fresh, codec, config>>

\* The tool handlers: app1 stands for get_status (query_dps), app2 for the
\* setters (set_dps).
AppCall(t) ==
    /\ Begin(t, IF t = "app1" THEN CMD_DP_QUERY ELSE CMD_CONTROL)
    /\ UNCHANGED tool

\* spawn_heartbeat: one tick of the loop.
Tick == Begin(Heartbeat, CMD_HEART_BEAT) /\ UNCHANGED tool

\* A mutex that grants lock() while another task holds the guard.
CanAcquireHeld == TRUE

\* tokio::sync::Mutex: lock() is granted at once only when nobody holds the
\* mutex; the mutex is fair, so nobody is queued either.
CanAcquire == holder = None

\* send_receive, line 141: conn.stream.lock().await
Lock(t) ==
    /\ pc[t] = "lock"
    /\ IF CanAcquire
       THEN /\ holder' = t
            /\ pc' = [pc EXCEPT ![t] = "write"]
            /\ UNCHANGED waiters
       ELSE /\ waiters' = Append(waiters, t)
            /\ pc' = [pc EXCEPT ![t] = "wait"]
            /\ UNCHANGED holder
    /\ UNCHANGED <<seqno, local_key, device_id, sock, tx, rx, call, last, ncalls,
                   handed, written, failed, faults, abandoned, fresh, codec, config, tool>>

\* The bytes of a stream of <<byte, request id>> pairs, and the requests they
\* answer.
Bytes(s) == [i \in 1..Len(s) |-> s[i][1]]
Owners(s) == {s[i][2] : i \in 1..Len(s)}
Tagged(bytes, id) == [i \in 1..Len(bytes) |-> <<bytes[i], id>>]

\* An I/O error reported as a timeout.
FromIoErrorAsTimeout == "Timeout"

\* Conversions into ConnectionError (lines 49-59, 128 and 151).  "Ok" is
\* Ok(msg); "Panic" is the abort of the task, which is no return value.
FromIoError == "Tcp"
FromElapsed == "Timeout"
FromParse(r) ==
    IF r.kind = "Message" THEN "Ok"
    ELSE IF r.kind = "Panic" THEN "Panic"
    ELSE "Protocol"

\* What send_receive hands back, with the history of the call.
Outcome(t, kind, cause, consumed, val) ==
    [kind |-> kind, id |-> call[t].id, seqno |-> call[t].seqno, cause |-> cause,
     src |-> Owners(consumed), clean |-> ~failed, wrote |-> call[t].wrote,
     reads |-> call[t].reads, grant |-> call[t].grant, frame |-> Bytes(consumed),
     val |-> val]

\* A guard that is not dropped on the timeout path.
GuardLeakOnTimeout(kind) ==
    IF kind = "Timeout" THEN [holder |-> holder, waiters |-> waiters]
    ELSE IF waiters = <<>>
    THEN [holder |-> None, waiters |-> <<>>]
    ELSE [holder |-> Head(waiters), waiters |-> Tail(waiters)]

\* Drop of the MutexGuard when send_receive is left with a result of this
\* kind (return, `?`, or unwinding): the mutex passes to the oldest waiter.
GuardDrop(kind) ==
    IF waiters = <<>>
    THEN [holder |-> None, waiters |-> <<>>]
    ELSE [holder |-> Head(waiters), waiters |-> Tail(waiters)]

\* The end of a send_receive call of task t.
Return(t, res) ==
    LET g == GuardDrop(res.kind)
    IN  /\ last' = res
        /\ holder' = g.holder
        /\ waiters' = g.waiters
        /\ pc' = [u \in Tasks |->
                    IF u = t THEN (IF res.kind = "Panic" THEN "dead" ELSE "idle")
                    ELSE IF u = g.holder /\ pc[u] = "wait" THEN "write"
                    ELSE pc[u]]
        /\ call' = [u \in Tasks |->
                    IF u = t THEN NoCall
                    ELSE IF u = g.holder /\ pc[u] = "wait"
                         THEN [call[u] EXCEPT !.grant = res.kind]
                    ELSE call[u]]
        /\ failed' = (failed \/ res.kind # "Ok")

\* write_frame succeeds: the whole frame is on the wire.  Line 146 then
\* starts the timer of the read.
WriteOk(t) ==
    /\ pc[t] = "write"
    /\ sock = "open"
    /\ tx' = Append(tx, [id |-> call[t].id, frame |-> call[t].frame])
    /\ written' = Append(written, call[t].seqno)
    /\ call' = [call EXCEPT ![t].wrote = call[t].wrote + 1, ![t].timer = TRUE]
    /\ pc' = [pc EXCEPT ![t] = "read_header"]
    /\ UNCHANGED <<seqno, local_key, device_id, holder, waiters, sock, rx, last,
                   ncalls, handed, failed, faults, abandoned, fresh, codec, config, tool>>

\* write_frame fails (the peer has closed the connection): line 143 returns
\* the error through `?`.
WriteFail(t) ==
    /\ pc[t] = "write"
    /\ sock = "closed"
    /\ Return(t, Outcome(t, FromIoError, "write", <<>>, NoValue))
    /\ UNCHANGED <<seqno, local_key, device_id, sock, tx, rx, ncalls, handed,
                   written, faults, abandoned, fresh, codec, config, tool>>

\* A body read that takes the declared length for the payload section alone
\* and leaves the eight bytes of the footer in the socket.
NeededPayloadOnly(t) ==
    IF pc[t] = "read_header" THEN HEADER_SIZE - Len(call[t].buf)
    ELSE LET n == AsUsize(U32At(Bytes(call[t].header), 12)) - FOOTER_SIZE
                      - Len(call[t].buf)
         IN  IF n < 0 THEN 0 ELSE n

\* Number of bytes the pending read_exact still waits for.
Needed(t) ==
    IF pc[t] = "read_header" THEN HEADER_SIZE - Len(call[t].buf)
    ELSE AsUsize(U32At(Bytes(call[t].header), 12)) - Len(call[t].buf)

\* read_exact takes what has arrived when that is less than it asked for.
ReadSome(t) ==
    /\ pc[t] \in {"read_header", "read_body"}
    /\ Len(rx) > 0
    /\ Len(rx) < Needed(t)
    /\ call' = [call EXCEPT ![t].buf = call[t].buf \o rx, ![t].reads = 1]
    /\ rx' = <<>>
    /\ UNCHANGED <<seqno, local_key, device_id, holder, waiters, sock, tx, pc, last,
                   ncalls, handed, written, failed, faults, abandoned, fresh, codec, config, tool>>

\* read_frame, lines 107-117: the 16 header bytes are there; the prefix is
\* checked before the rest is read.
ReadHeader(t) ==
    /\ pc[t] = "read_header"
    /\ Len(rx) >= Needed(t)
    /\ LET header == call[t].buf \o SubSeq(rx, 1, Needed(t))
           prefix == U32At(Bytes(header), 0)
       IN  /\ rx' = SubSeq(rx, Needed(t) + 1, Len(rx))
           /\ IF prefix # PREFIX
              THEN Return(t, [Outcome(t, FromParse(InvalidPrefix(prefix)), "invalid",
                                      header, InvalidPrefix(prefix))
                                EXCEPT !.reads = 1])
              ELSE /\ call' = [call EXCEPT ![t].header = header, ![t].buf = <<>>,
                                           ![t].reads = 1]
                   /\ pc' = [pc EXCEPT ![t] = "read_body"]
                   /\ UNCHANGED <<holder, waiters, last, failed>>
    /\ UNCHANGED <<seqno, local_key, device_id, sock, tx, ncalls, handed, written,
                   faults, abandoned, fresh, codec, config, tool>>

\* read_frame, lines 120-128: the declared number of bytes is there; the
\* reassembled frame goes to parse_frame.
ReadBody(t) ==
    /\ pc[t] = "read_body"
    /\ Len(rx) >= Needed(t)
    /\ LET full_frame == call[t].header \o call[t].buf \o SubSeq(rx, 1, Needed(t))
           r == parse_frame(Bytes(full_frame), local_key)
       IN  /\ rx' = SubSeq(rx, Needed(t) + 1, Len(rx))
           /\ Return(t, Outcome(t, FromParse(r),
                                IF r.kind = "Message" THEN None ELSE "invalid",
                                full_frame, r))
    /\ UNCHANGED <<seqno, local_key, device_id, sock, tx, ncalls, handed, written,
                   faults, abandoned, fresh, codec, config, tool>>

\* read_exact meets the end of the stream: an io::Error (UnexpectedEof).
ReadEof(t) ==
    /\ pc[t] \in {"read_header", "read_body"}
    /\ sock = "closed"
    /\ Len(rx) < Needed(t)
    /\ rx' = <<>>
    /\ Return(t, [Outcome(t, FromIoError, "read", <<>>, NoValue) EXCEPT !.reads = 1])
    /\ UNCHANGED <<seqno, local_key, device_id, sock, tx, ncalls, handed, written,
                   faults, abandoned, fresh, codec, config, tool>>

\* A timeout that shuts the stream down and discards what was in flight.
AfterTimeoutClose == [sock |-> "closed", tx |-> <<>>, rx |-> <<>>]

\* What the expiry of the timer does to the socket: nothing.  The read future
\* is dropped with the bytes it had taken; the stream stays as it is.
AfterTimeout == [sock |-> sock, tx |-> tx, rx |-> rx]

\* Lines 146-151: the 5 s timer, started after the write, expires during
\* read_frame.
Timeout(t) ==
    /\ pc[t] \in {"read_header", "read_body"}
    /\ call[t].timer
    /\ faults < MaxFaults
    /\ faults' = faults + 1
    /\ abandoned' = abandoned \cup {call[t].id}
    /\ sock' = AfterTimeout.sock
    /\ tx' = AfterTimeout.tx
    /\ rx' = AfterTimeout.rx
    /\ Return(t, [Outcome(t, FromElapsed, "timer", <<>>, NoValue) EXCEPT !.reads = 1])
    /\ UNCHANGED <<seqno, local_key, device_id, ncalls, handed, written, fresh, codec, config, tool>>

----------------------------------------------------------------------------
(* The device.  It takes the request frames in the order they were written *)
(* and answers each one once, echoing its sequence number and command; the *)
(* reply is built as the test parse_device_response builds one.  It may    *)
(* answer late (the timer of the caller then expires first), answer with a *)
(* malformed frame, or close the connection.                               *)

\* {"1":1}
status_json == <<123, 34, 49, 34, 58, 49, 125>>

\* [header][section][crc][suffix], the length field counting section + 8.
DeviceFrame(seq, cmd, section) ==
    LET length == LenWord(Len(section) + FOOTER_SIZE)
        frame == PREFIX \o seq \o cmd \o length \o section
    IN  frame \o crc32(frame) \o SUFFIX

ReplyKinds == {"ok", "badcrc", "short", "noise"}
Malformed == {"badcrc", "short", "noise"}

\* "ok": result code 0 and, except for a liveness ping, the tagged and
\* encrypted status; "short": a frame without result code (declared length
\* 8); "badcrc": a payload byte altered; "noise": the prefix altered.
DeviceReplyFrame(kind, request, key) ==
    LET seq == U32At(request, 4)
        cmd == U32At(request, 8)
        good == IF cmd = Word(CMD_HEART_BEAT)
                THEN DeviceFrame(seq, cmd, Word(0))
                ELSE DeviceFrame(seq, cmd, Word(0) \o VERSION_HEADER
                                           \o encrypt_payload(status_json, key))
    IN  CASE kind = "ok" -> good
          [] kind = "short" -> DeviceFrame(seq, cmd, <<>>)
          [] kind = "badcrc" -> [good EXCEPT ![HEADER_SIZE + 1] = (@ + 1) % 256]
          [] kind = "noise" -> [good EXCEPT ![4] = (@ + 1) % 256]

DeviceReply(kind) ==
    /\ sock = "open"
    /\ tx # <<>>
    /\ kind \in Malformed => faults < MaxFaults
    /\ faults' = IF kind \in Malformed THEN faults + 1 ELSE faults
    /\ rx' = rx \o Tagged(DeviceReplyFrame(kind, Head(tx).frame, local_key), Head(tx).id)
    /\ tx' = Tail(tx)
    /\ UNCHANGED <<seqno, local_key, device_id, holder, waiters, sock, pc, call, last,
                   ncalls, handed, written, failed, abandoned, fresh, codec, config, tool>>

\* The peer closes the connection; the requests it had not answered are lost.
SockReset ==
    /\ sock = "open"
    /\ faults < MaxFaults
    /\ faults' = faults + 1
    /\ sock' = "closed"
    /\ tx' = <<>>
    /\ UNCHANGED <<seqno, local_key, device_id, holder, waiters, rx, pc, call, last,
                   ncalls, handed, written, failed, abandoned, fresh, codec, config, tool>>

----------------------------------------------------------------------------

Next ==
    \/ \E t \in Apps : AppCall(t)
    \/ Tick
    \/ \E t \in Tasks : Lock(t)
    \/ \E t \in Tasks : WriteOk(t)
    \/ \E t \in Tasks : WriteFail(t)
    \/ \E t \in Tasks : ReadSome(t)
    \/ \E t \in Tasks : ReadHeader(t)
    \/ \E t \in Tasks : ReadBody(t)
    \/ \E t \in Tasks : ReadEof(t)
    \/ \E t \in Tasks : Timeout(t)
    \/ \E kind \in ReplyKinds : DeviceReply(kind)
    \/ SockReset

Spec == Init /\ [][Next]_vars

SpecWrap == InitWrap /\ [][Next]_vars

----------------------------------------------------------------------------
(* The read side of send_receive on an arbitrary inbound stream: the call  *)
(* of app1 has written its request, the device has taken it and has put    *)
(* some bytes on the stream, well-formed or not, and may have closed the   *)
(* connection after them.                                                  *)

\* A key that is not the key of the connection.
OtherKey == [i \in 1..16 |-> 0]

\* What a reply may carry between the header and the checksum.
ReplySections ==
    { Word(0),
      Word(0) \o VERSION_HEADER \o encrypt_payload(status_json, TestKey),
      Word(0) \o encrypt_payload(status_json, TestKey),
      Word(0) \o VERSION_HEADER,
      Word(0) \o VERSION_HEADER \o encrypt_payload(status_json, OtherKey),
      Word(0) \o <<1, 2, 3, 4, 5>>,
      <<>>,
      <<0, 0>> }

\* A frame, the frame with one byte altered (in the prefix, the length, after
\* the header, in the checksum, in the suffix), cut short, or followed by
\* two more bytes.
Damaged(f) ==
    {f}
    \cup {[f EXCEPT ![i] = (@ + 1) % 256] : i \in {4, 16, 17, Len(f) - 4, Len(f)}}
    \cup {SubSeq(f, 1, k) : k \in {7, 20}}
    \cup {f \o <<0, 0>>}

Inbound ==
    UNION {Damaged(DeviceFrame(Word(1), Word(CMD_DP_QUERY), sec)) : sec \in ReplySections}

InitRecv ==
    /\ seqno = Word(2)
    /\ local_key = TestKey
    /\ device_id = "dev"
    /\ holder = "app1"
    /\ waiters = <<>>
    /\ sock \in {"open", "closed"}
    /\ tx = <<>>
    /\ \E data \in Inbound : rx = Tagged(data, 1)
    /\ pc = [t \in Tasks |-> IF t = "app1" THEN "read_header" ELSE "idle"]
    /\ call = [t \in Tasks |->
                IF t = "app1"
                THEN [NoCall EXCEPT !.id = 1, !.seqno = Word(1), !.cmd = CMD_DP_QUERY,
                                    !.frame = build_frame(Word(1), CMD_DP_QUERY,
                                                          build_dp_query_json, TestKey),
                                    !.timer = TRUE, !.wrote = 1]
                ELSE NoCall]
    /\ last = NoResult
    /\ ncalls = 1
    /\ handed = <<Word(1)>>
    /\ written = <<Word(1)>>
    /\ failed = FALSE
    /\ faults = 0
    /\ abandoned = {}
    /\ fresh = TRUE
    /\ codec = NoCodec
    /\ config = Started(TestKey)
    /\ tool = NoTool

NextRecv ==
    \/ \E t \in Tasks : ReadSome(t)
    \/ \E t \in Tasks : ReadHeader(t)
    \/ \E t \in Tasks : ReadBody(t)
    \/ \E t \in Tasks : ReadEof(t)
    \/ \E t \in Tasks : Timeout(t)

SpecRecv == InitRecv /\ [][NextRecv]_vars

----------------------------------------------------------------------------
(* Properties of the connection layer.                                     *)

\* C1: at most one exchange is in flight: at any time at most one task is
\* between the start of its write and the end of its read, and that task
\* holds the stream mutex; the socket is touched by no other task.
C1_OneExchangeInFlight ==
    /\ \A t, u \in Tasks : pc[t] \in InExchange /\ pc[u] \in InExchange => t = u
    /\ \A t \in Tasks : pc[t] \in InExchange => holder = t

\* C1, its case: one call is reading while another caller is queued.
C1_Contended ==
    \E t, u \in Tasks : pc[t] = "read_header" /\ pc[u] = "wait" /\ call[t].wrote = 1

\* C2: as long as no exchange has failed, timed out or aborted, a call that
\* returns a Message has read exactly the bytes the device sent in answer to
\* the frame of that call, and the Message carries the call's sequence number.
C2_ReplyPairing ==
    (last.kind = "Ok" /\ last.clean) =>
        (last.src = {last.id} /\ last.val.seqno = last.seqno)

\* C2, its case: a call that had to queue behind another caller's exchange
\* returned a Message.
C2_PairedUnderContention ==
    last.kind = "Ok" /\ last.clean /\ last.grant = "Ok"

\* C3: the frames are written in the order of their sequence numbers.
C3_WrittenInSeqnoOrder ==
    \A i, j \in 1..Len(written) : i < j => WordLess(written[i], written[j])

\* C4: the first call of a connection gets sequence number 1 and every call
\* gets a number greater than all the numbers handed out before it.
C4_SeqnoIncreasing ==
    /\ (fresh /\ handed # <<>>) => handed[1] = Word(1)
    /\ \A i, j \in 1..Len(handed) : i < j => WordLess(handed[i], handed[j])

\* C5: the response timer bounds the whole exchange: it runs from the moment
\* the call holds the socket, during the write as during the read.
C5_TimerBoundsExchange ==
    \A t \in Tasks : pc[t] \in InExchange => call[t].timer

\* C6: every way out of an exchange releases the stream mutex: the task that
\* leaves does not hold it any more, the oldest waiter (if any) holds it and
\* proceeds to its write, and nobody holds it otherwise; a task outside an
\* exchange never holds the mutex.
C6_LockReleasedOnReturn ==
    /\ [](\A t \in Tasks : holder = t => pc[t] \in InExchange)
    /\ [][\A t \in Tasks :
            (pc[t] \in InExchange /\ pc'[t] \notin InExchange) =>
                /\ holder' # t
                /\ IF waiters = <<>> THEN holder' = None
                   ELSE /\ holder' = Head(waiters)
                        /\ pc'[Head(waiters)] = "write"]_vars

\* C6, its case: a queued caller got the mutex from a call that timed out.
C6_WaiterGranted ==
    \E u \in Tasks : pc[u] = "write" /\ call[u].grant = "Timeout"

\* C7: the heartbeat loop is never stopped by what a ping meets.
C7_HeartbeatNeverStops == pc[Heartbeat] # "dead"

\* C8: the expiry of the timer ends the call and nothing else: the socket
\* stays open, the request stays with the device and no byte of the inbound
\* stream is discarded, so the late reply is still there for the next reader.
C8_TimeoutLeavesStream ==
    [][abandoned' # abandoned =>
            /\ sock' = sock
            /\ tx' = tx
            /\ rx' = rx
            /\ seqno' = seqno]_vars

\* C8, its case: the call that follows a timed-out call returned, as its
\* Message, the reply to the timed-out call.
C8_StaleReplyReturned ==
    /\ last.kind = "Ok"
    /\ \E i \in abandoned : last.src = {i} /\ last.id = i + 1
    /\ last.val.seqno # last.seqno

\* C9: an I/O failure gives Tcp, an invalid frame gives Protocol, the expiry
\* of the timer gives Timeout, and nothing else gives them; a call writes at
\* most one frame, and reads nothing after a failed write.
C9_ErrorKinds ==
    /\ last.cause \in {"write", "read"} <=> last.kind = "Tcp"
    /\ last.cause = "timer" <=> last.kind = "Timeout"
    /\ (last.cause = "invalid" /\ last.val.kind \in ProtocolErrorKinds)
            <=> last.kind = "Protocol"
    /\ last.cause = "write" => (last.wrote = 0 /\ last.reads = 0)
    /\ last.wrote <= 1
    /\ Len(written) <= ncalls
    /\ \A t \in Tasks : call[t].wrote <= 1

\* C9, its case: the write of a call failed and the call returned Tcp.
C9_WriteFailed == last.kind = "Tcp" /\ last.cause = "write"

\* C10 as stated: a Message is returned only for a buffer that passed the
\* five checks and whose payload section was empty or decrypted successfully.
C10_MessageOnlyIfEmptyOrDecrypted ==
    last.kind = "Ok" =>
        LET data == last.frame
            length == AsUsize(U32At(data, 12))
            raw == Slice(data, HEADER_SIZE + RETCODE_SIZE, HEADER_SIZE + length - FOOTER_SIZE)
            tagged == Len(raw) >= 15 /\ SubSeq(raw, 1, 3) = <<51, 46, 51>>
            cipher == IF tagged THEN SubSeq(raw, 16, Len(raw)) ELSE raw
        IN  /\ Len(data) >= 24
            /\ U32At(data, 0) = PREFIX
            /\ HEADER_SIZE + length <= Len(data)
            /\ length >= 12
            /\ U32At(data, HEADER_SIZE + length - 4) = SUFFIX
            /\ U32At(data, HEADER_SIZE + length - 8)
                    = crc32(SubSeq(data, 1, HEADER_SIZE + length - 8))
            /\ \/ raw = <<>>
               \/ decrypt_payload(cipher, local_key).ok

\* C10, amended: a Message is returned only for a buffer that passed the five
\* checks and whose payload section was empty, was the version tag with
\* nothing after it (the Message then has an empty payload), or decrypted
\* successfully (the Message then has the plaintext); a buffer that fails a
\* check or the decryption gives a Protocol error, and no error of any kind
\* carries a Message.
C10_NoPartialSuccess ==
    LET data == last.frame
        length == AsUsize(U32At(data, 12))
        raw == Slice(data, HEADER_SIZE + RETCODE_SIZE, HEADER_SIZE + length - FOOTER_SIZE)
        tagged == Len(raw) >= 15 /\ SubSeq(raw, 1, 3) = <<51, 46, 51>>
        cipher == IF tagged THEN SubSeq(raw, 16, Len(raw)) ELSE raw
        checked ==
            /\ Len(data) >= 24
            /\ U32At(data, 0) = PREFIX
            /\ HEADER_SIZE + length <= Len(data)
            /\ U32At(data, HEADER_SIZE + length - 4) = SUFFIX
            /\ U32At(data, HEADER_SIZE + length - 8)
                    = crc32(SubSeq(data, 1, HEADER_SIZE + length - 8))
    IN  /\ last.kind = "Ok" =>
            /\ last.val.kind = "Message"
            /\ checked
            /\ length >= 12
            /\ \/ raw = <<>> /\ last.val.payload = <<>>
               \/ cipher = <<>> /\ last.val.payload = <<>>
               \/ /\ decrypt_payload(cipher, local_key).ok
                  /\ last.val.payload = decrypt_payload(cipher, local_key).bytes
        /\ last.kind # "Ok" => last.val.kind # "Message"
        /\ (last.frame # <<>> /\ ~checked) => last.kind = "Protocol"
        /\ (last.frame # <<>> /\ checked /\ length >= 12 /\ cipher # <<>>
                /\ ~decrypt_payload(cipher, local_key).ok) => last.kind = "Protocol"

\* C10, its case: a validated reply was decrypted and returned.
C10_DecryptedReturned ==
    /\ last.kind = "Ok"
    /\ last.val.payload = status_json
    /\ Len(last.frame) > HEADER_SIZE + RETCODE_SIZE + FOOTER_SIZE

----------------------------------------------------------------------------
(* The codec on its own.  The functions of tuya_protocol.rs are pure: they *)
(* are applied here to inputs drawn from bounded sets, the way the unit    *)
(* tests of the file apply them, with no connection.                       *)

\* Longest plaintext pattern.
MaxPlainLen == 33

Keys == {TestKey, OtherKey}
SeqNos == {Word(1), <<255, 255, 255, 255>>}
Cmds == {CMD_CONTROL, CMD_STATUS, CMD_HEART_BEAT, CMD_DP_QUERY, CMD_UPDATEDPS, 0}
RetCodes == {Word(0), Word(258)}

\* n bytes of payload.
Pattern(n) == [i \in 1..n |-> (i * 37 + n) % 256]

\* The 16 bytes whose cipher block under this key begins with "3.3".
TagLike(key) == decrypt_block(VERSION_HEADER \o <<0>>, key)

Plaintexts(key) ==
    {Pattern(n) : n \in 0..MaxPlainLen} \cup {status_json, TagLike(key)}

\* n bytes ending with the given bytes: decrypted data before unpadding.
Ending(n, tail) == SubSeq(Pattern(n), 1, n - Len(tail)) \o tail

\* Valid and invalid paddings; the cipher being a bijection on blocks, every
\* ciphertext of whole blocks is the encryption of some such data.
Unpadded ==
    { Ending(n, tail) :
        n \in {16, 32},
        tail \in { <<1>>, <<2, 2>>, [i \in 1..16 |-> 16],
                   <<0>>, <<17>>, <<255>>, <<3, 2>>, <<2, 3, 3>>,
                   <<5>> \o [i \in 1..15 |-> 16] } }

\* Byte strings handed to decrypt_payload: whole blocks, with 0, 1, 15, 17 or
\* 31 bytes among them.
Ciphertexts(key) ==
    LET whole == {EcbEncrypt(b, key, 1) : b \in Unpadded}
    IN  whole \cup {<<>>}
        \cup {SubSeq(EcbEncrypt(Ending(32, <<1>>), key, 1), 1, k) : k \in {1, 15, 17, 31}}

\* No connection exists.
NotConnected ==
    /\ seqno = Word(1)
    /\ local_key = TestKey
    /\ device_id = "dev"
    /\ holder = None
    /\ waiters = <<>>
    /\ sock = "closed"
    /\ tx = <<>>
    /\ rx = <<>>
    /\ pc = [t \in Tasks |-> "idle"]
    /\ call = [t \in Tasks |-> NoCall]
    /\ last = NoResult
    /\ ncalls = 0
    /\ handed = <<>>
    /\ written = <<>>
    /\ failed = FALSE
    /\ faults = 0
    /\ abandoned = {}
    /\ fresh = TRUE
    /\ config = Started(TestKey)
    /\ tool = NoTool

conn_vars == <<seqno, local_key, device_id, holder, waiters, sock, tx, rx, pc, call,
               last, ncalls, handed, written, failed, faults, abandoned, fresh,
               config, tool>>

\* The input is a key with a plaintext, or a key with a ciphertext.
InitCodec ==
    /\ NotConnected
    /\ \E key \in Keys :
          \/ \E p \in Plaintexts(key) :
                codec = [NoCodec EXCEPT !.step = "plain", !.key = key, !.plaintext = p]
          \/ \E c \in Ciphertexts(key) :
                codec = [NoCodec EXCEPT !.step = "cipher", !.key = key, !.ciphertext = c]

Encrypt ==
    /\ codec.step = "plain"
    /\ codec' = [codec EXCEPT !.step = "encrypted",
                              !.ciphertext = encrypt_payload(codec.plaintext, codec.key)]
    /\ UNCHANGED conn_vars

Decrypt ==
    /\ codec.step \in {"encrypted", "cipher"}
    /\ codec' = [codec EXCEPT !.step = "decrypted", !.src = codec.step,
                              !.result = decrypt_payload(codec.ciphertext, codec.key)]
    /\ UNCHANGED conn_vars

Build(seq, cmd) ==
    /\ codec.step = "plain"
    /\ codec' = [codec EXCEPT !.step = "built", !.src = "built", !.seqno = seq,
                              !.cmd = cmd,
                              !.data = build_frame(seq, cmd, codec.plaintext, codec.key)]
    /\ UNCHANGED conn_vars

\* A device reply, put together as parse_device_response does it:
\* [header][retcode][tag, or nothing][ciphertext][crc][suffix].
Reply(seq, cmd, retcode, tagged) ==
    /\ codec.step = "plain"
    /\ LET encrypted == encrypt_payload(codec.plaintext, codec.key)
           payload_section == retcode \o (IF tagged THEN VERSION_HEADER ELSE <<>>)
                                      \o encrypted
       IN  codec' = [codec EXCEPT !.step = "reply", !.src = "reply", !.seqno = seq,
                                  !.cmd = cmd, !.retcode = retcode, !.tagged = tagged,
                                  !.ciphertext = encrypted,
                                  !.data = DeviceFrame(seq, Word(cmd), payload_section)]
    /\ UNCHANGED conn_vars

Parse ==
    /\ codec.step \in {"built", "reply", "buffer", "altered"}
    /\ codec' = [codec EXCEPT !.step = "parsed",
                              !.result = parse_frame(codec.data, codec.key)]
    /\ UNCHANGED conn_vars

NextCodec ==
    \/ Encrypt
    \/ Decrypt
    \/ \E seq \in SeqNos, cmd \in Cmds : Build(seq, cmd)
    \/ \E seq \in SeqNos, cmd \in Cmds, retcode \in RetCodes, tagged \in BOOLEAN :
          Reply(seq, cmd, retcode, tagged)
    \/ Parse

SpecCodec == InitCodec /\ [][NextCodec]_vars

----------------------------------------------------------------------------
(* parse_frame on arbitrary buffers: device replies, whole or with any     *)
(* combination of defects, and accepted buffers with one byte changed.     *)

Defects == {"prefix", "long", "short", "suffix", "crc", "tail", "cut"}

\* The frame f with the defects of S: a wrong prefix, a length field one too
\* large or one too small, a wrong suffix, a wrong checksum, two more bytes
\* after the suffix, only the first 23 bytes.
WithDefects(f, S) ==
    LET n == Len(f)
        f1 == IF "prefix" \in S THEN [f EXCEPT ![3] = 0] ELSE f
        f2 == IF "long" \in S THEN [f1 EXCEPT ![16] = @ + 1] ELSE f1
        f3 == IF "short" \in S THEN [f2 EXCEPT ![16] = @ - 1] ELSE f2
        f4 == IF "suffix" \in S THEN [f3 EXCEPT ![n] = 0] ELSE f3
        f5 == IF "crc" \in S THEN [f4 EXCEPT ![n - 4] = (@ + 1) % 256] ELSE f4
        f6 == IF "tail" \in S THEN f5 \o <<0, 0>> ELSE f5
    IN  IF "cut" \in S THEN SubSeq(f6, 1, 23) ELSE f6

Buffers ==
    { WithDefects(DeviceFrame(Word(1), Word(CMD_STATUS), sec), S) :
         sec \in ReplySections, S \in SUBSET Defects }

InitParse ==
    /\ NotConnected
    /\ \E data \in Buffers :
          codec = [NoCodec EXCEPT !.step = "buffer", !.src = "buffer", !.data = data]

\* Bits changed in the altered byte.
Masks == {1, 128, 255}

\* One byte of an accepted buffer, at an offset from the end of the header up
\* to the checksum field, is changed.
Alter(i, mask) ==
    /\ codec.step = "parsed"
    /\ codec.result.kind = "Message"
    /\ codec.accepted = <<>>
    /\ i >= HEADER_SIZE
    /\ i < HEADER_SIZE + AsUsize(U32At(codec.data, 12)) - FOOTER_SIZE
    /\ codec' = [codec EXCEPT !.step = "altered", !.accepted = codec.data, !.at = i,
                              !.data = [codec.data EXCEPT ![i + 1] = Xor8(@, mask)]]
    /\ UNCHANGED conn_vars

NextParse ==
    \/ Parse
    \/ \E i \in 0..(Len(codec.data) - 1), mask \in Masks : Alter(i, mask)

SpecParse == InitParse /\ [][NextParse]_vars

----------------------------------------------------------------------------
(* Properties of the codec.                                                *)

\* C11: parse/build round trip: parse_frame applied with the same key to the
\* bytes build_frame produced returns a Message whose payload is the original
\* plaintext and whose seqno and cmd are the inputs.
C11_BuildParseRoundTrip ==
    (codec.step = "parsed" /\ codec.src = "built") =>
        /\ codec.result.kind = "Message"
        /\ codec.result.payload = codec.plaintext
        /\ codec.result.seqno = codec.seqno
        /\ codec.result.cmd = Word(codec.cmd)

\* C12: encryption round trip: decrypt_payload(encrypt_payload(p, k), k)
\* succeeds and returns exactly p, for the empty plaintext and for lengths
\* that are multiples of 16 as for the others.
C12_EncryptDecryptRoundTrip ==
    (codec.step = "decrypted" /\ codec.src = "encrypted") =>
        /\ codec.result.ok
        /\ codec.result.bytes = codec.plaintext

\* A plaintext of exactly one block went through two blocks of ciphertext and
\* came back.
C12_WholeBlockCameBack ==
    /\ codec.step = "decrypted"
    /\ codec.src = "encrypted"
    /\ Len(codec.plaintext) = 16
    /\ Len(codec.ciphertext) = 32
    /\ codec.result.ok
    /\ codec.result.bytes = codec.plaintext

\* C13: a built frame starts with 00 00 55 AA, carries the sequence number
\* in bytes 4-7 and the command in bytes 8-11, ends with 00 00 AA 55, and the
\* four bytes before the suffix are the CRC-32 of everything before them.
C13_FrameLayout ==
    codec.step = "built" =>
        LET d == codec.data
            n == Len(d)
        IN  /\ n >= 24
            /\ SubSeq(d, 1, 4) = <<0, 0, 85, 170>>
            /\ SubSeq(d, 5, 8) = codec.seqno
            /\ SubSeq(d, 9, 12) = <<0, 0, codec.cmd \div 256, codec.cmd % 256>>
            /\ SubSeq(d, n - 3, n) = <<0, 0, 170, 85>>
            /\ SubSeq(d, n - 7, n - 4) = crc32(SubSeq(d, 1, n - 8))

\* A control frame with the largest sequence number was built.
C13_ControlFrameBuilt ==
    /\ codec.step = "built"
    /\ codec.cmd = CMD_CONTROL
    /\ codec.seqno = <<255, 255, 255, 255>>
    /\ SubSeq(codec.data, 5, 8) = <<255, 255, 255, 255>>
    /\ Len(codec.data) > 24

\* C14: the length field of a built frame is the length of the payload
\* section (the ciphertext, 15 bytes more when tagged) plus 8, so that 16
\* bytes and then that many bytes are exactly the frame.
C14_DeclaredLength ==
    codec.step = "built" =>
        LET d == codec.data
            blocks == Len(codec.plaintext) \div 16 + 1
            section == blocks * 16 + (IF codec.cmd \in {9, 10, 18} THEN 0 ELSE 15)
        IN  /\ U32At(d, 12) = <<0, 0, (section + 8) \div 256, (section + 8) % 256>>
            /\ Len(d) = 16 + AsUsize(U32At(d, 12))

\* A tagged frame of three cipher blocks declares 48 + 15 + 8 bytes.
C14_ThreeBlocksDeclared ==
    /\ codec.step = "built"
    /\ Len(codec.plaintext) = 33
    /\ codec.cmd = CMD_CONTROL
    /\ U32At(codec.data, 12) = <<0, 0, 0, 71>>

\* C15 as stated: the length field of a built frame is the total number of
\* bytes of the frame less 16 and less 8.
C15_LengthIsTotalLess24 ==
    codec.step = "built" =>
        AsUsize(U32At(codec.data, 12)) = Len(codec.data) - 16 - 8

\* C15, amended: the length field of a built frame is the total number of
\* bytes of the frame less 16 (the footer is counted).
C15_LengthIsTotalLess16 ==
    codec.step = "built" =>
        AsUsize(U32At(codec.data, 12)) = Len(codec.data) - 16

\* The 40-byte query frame of an empty body declares 24.
C15_QueryFrameDeclares24 ==
    /\ codec.step = "built"
    /\ codec.cmd = CMD_DP_QUERY
    /\ codec.plaintext = <<>>
    /\ Len(codec.data) = 40
    /\ AsUsize(U32At(codec.data, 12)) = 24

\* C16: for the commands 0x09, 0x0A and 0x12 the payload section of a built
\* frame is the ciphertext alone; for every other command, 0x07 included, it
\* is "3.3" and 12 zero bytes right after the header, then the ciphertext.
C16_TagTable ==
    codec.step = "built" =>
        LET d == codec.data
            section == SubSeq(d, 17, Len(d) - 8)
            encrypted == encrypt_payload(codec.plaintext, codec.key)
        IN  IF codec.cmd \in {9, 10, 18}
            THEN section = encrypted
            ELSE section = <<51, 46, 51, 0, 0, 0, 0, 0, 0, 0, 0, 0, 0, 0, 0>> \o encrypted

\* A bulk-update frame of one cipher block was built without tag.
C16_BulkUpdateUntagged ==
    /\ codec.step = "built"
    /\ codec.cmd = CMD_UPDATEDPS
    /\ Len(codec.plaintext) = 7
    /\ Len(codec.data) = 16 + 16 + 8

\* C19: a device reply [header][result code][tag or nothing][ciphertext]
\* [crc][suffix] parses, whatever its command, to a Message with the header's
\* seqno and cmd, the result code that follows the header, and the plaintext
\* that was encrypted as payload.
C19_DeviceReplyParsed ==
    (codec.step = "parsed" /\ codec.src = "reply") =>
        /\ codec.result.kind = "Message"
        /\ codec.result.seqno = codec.seqno
        /\ codec.result.cmd = Word(codec.cmd)
        /\ codec.result.retcode = codec.retcode
        /\ codec.result.payload = codec.plaintext

\* C20: decrypt_payload returns a plaintext exactly when the ciphertext is a
\* positive number of whole blocks and the decrypted data ends with a valid
\* pad (a value n in 1..16 in each of the last n bytes); the plaintext is the
\* data without the pad.  In every other case it fails (DecryptionFailed).
C20_DecryptFailures ==
    codec.step = "decrypted" =>
        LET c == codec.ciphertext
            d == EcbDecrypt(c, codec.key, 1)
            whole == Len(c) > 0 /\ Len(c) % 16 = 0
            n == d[Len(d)]
            valid == /\ whole
                     /\ n >= 1
                     /\ n <= 16
                     /\ \A i \in (Len(d) - n + 1)..Len(d) : d[i] = n
        IN  IF valid
            THEN codec.result.ok /\ codec.result.bytes = SubSeq(d, 1, Len(d) - n)
            ELSE ~codec.result.ok

\* Two whole blocks whose decrypted data ends with 3, 2 were refused.
C20_BadPadRefused ==
    /\ codec.step = "decrypted"
    /\ codec.src = "cipher"
    /\ Len(codec.ciphertext) = 32
    /\ SubSeq(EcbDecrypt(codec.ciphertext, codec.key, 1), 31, 32) = <<3, 2>>
    /\ ~codec.result.ok

\* C17: parse_frame reports the first failing check, in this order: fewer
\* than 24 bytes (PayloadTooShort); a first word other than 00 00 55 AA
\* (InvalidPrefix with that word); a declared length beyond the buffer
\* (PayloadTooShort); a word other than 00 00 AA 55 at the computed tail
\* offset (InvalidSuffix with that word); a checksum that differs
\* (CrcMismatch with the stored and the computed value).  None of these
\* errors is reported when all five checks pass.
C17_FirstFailingCheck ==
    codec.step = "parsed" =>
        LET d == codec.data
            r == codec.result
            L == AsUsize(SubSeq(d, 13, 16))
            suffix == SubSeq(d, 16 + L - 3, 16 + L)
            stored == SubSeq(d, 16 + L - 7, 16 + L - 4)
            computed == crc32(SubSeq(d, 1, 16 + L - 8))
        IN  IF Len(d) < 24
            THEN r = [kind |-> "PayloadTooShort"]
            ELSE IF SubSeq(d, 1, 4) # <<0, 0, 85, 170>>
            THEN r = [kind |-> "InvalidPrefix", word |-> SubSeq(d, 1, 4)]
            ELSE IF 16 + L > Len(d)
            THEN r = [kind |-> "PayloadTooShort"]
            ELSE IF suffix # <<0, 0, 170, 85>>
            THEN r = [kind |-> "InvalidSuffix", word |-> suffix]
            ELSE IF stored # computed
            THEN r = [kind |-> "CrcMismatch", expected |-> stored, actual |-> computed]
            ELSE r.kind \notin {"PayloadTooShort", "InvalidPrefix", "InvalidSuffix",
                                "CrcMismatch"}

\* A buffer with a wrong prefix, a wrong suffix and a wrong checksum was
\* reported for its prefix.
C17_PrefixReportedFirst ==
    /\ codec.step = "parsed"
    /\ Len(codec.data) >= 24
    /\ SubSeq(codec.data, 1, 4) # <<0, 0, 85, 170>>
    /\ SubSeq(codec.data, Len(codec.data) - 3, Len(codec.data)) # <<0, 0, 170, 85>>
    /\ codec.result.kind = "InvalidPrefix"

\* C18: an accepted buffer with one byte changed between the header and the
\* checksum field is refused with CrcMismatch, never parsed to a Message.
C18_AlteredByteDetected ==
    (codec.step = "parsed" /\ codec.accepted # <<>>) =>
        codec.result.kind = "CrcMismatch"

\* A changed ciphertext byte of a tagged reply was detected.
C18_CiphertextByteDetected ==
    /\ codec.step = "parsed"
    /\ codec.accepted # <<>>
    /\ codec.at >= HEADER_SIZE + RETCODE_SIZE + 15
    /\ SubSeq(codec.accepted, 21, 23) = <<51, 46, 51>>
    /\ codec.result.kind = "CrcMismatch"

\* C21: encrypt_payload returns 16 * (len \div 16 + 1) bytes, never none; the
\* data under the cipher is the plaintext followed by 16 - len % 16 bytes of
\* that value, a whole block of 16 when len is a multiple of 16.
C21_PaddedLength ==
    codec.step = "encrypted" =>
        LET len == Len(codec.plaintext)
            c == codec.ciphertext
            d == EcbDecrypt(c, codec.key, 1)
            pad == 16 - (len % 16)
        IN  /\ Len(c) = 16 * (len \div 16 + 1)
            /\ Len(c) > 0
            /\ Len(d) = len + pad
            /\ SubSeq(d, 1, len) = codec.plaintext
            /\ \A i \in (len + 1)..Len(d) : d[i] = pad

\* The empty plaintext of a liveness ping became one block of ciphertext.
C21_EmptyPlaintextOneBlock ==
    /\ codec.step = "encrypted"
    /\ codec.plaintext = <<>>
    /\ Len(codec.ciphertext) = 16
    /\ EcbDecrypt(codec.ciphertext, codec.key, 1) = [i \in 1..16 |-> 16]

\* C22 as stated: for a buffer that passed the five checks, parse_frame
\* returns an empty Message without decrypting only when nothing lies between
\* the result code and the checksum; otherwise what is left after the
\* optional tag is decrypted, and the result is the plaintext or, the case of
\* nothing left included, DecryptionFailed.
C22_EmptyOnlyIfSectionEmpty ==
    (codec.step = "parsed"
     /\ codec.result.kind \in {"Message", "DecryptionFailed"}) =>
        LET d == codec.data
            r == codec.result
            L == AsUsize(SubSeq(d, 13, 16))
            raw == SubSeq(d, 21, 16 + L - 8)
            rest == IF Len(raw) >= 15 /\ SubSeq(raw, 1, 3) = <<51, 46, 51>>
                    THEN SubSeq(raw, 16, Len(raw)) ELSE raw
            dec == decrypt_payload(rest, codec.key)
        IN  IF raw = <<>>
            THEN r.kind = "Message" /\ r.payload = <<>>
            ELSE IF dec.ok
            THEN r.kind = "Message" /\ r.payload = dec.bytes
            ELSE r.kind = "DecryptionFailed"

\* C22, amended: the empty Message without decryption is returned when
\* nothing lies between the result code and the checksum and also when
\* nothing is left after the tag; in every other case what is left is
\* decrypted and the result is the plaintext or DecryptionFailed.
C22_EmptyIfNothingToDecrypt ==
    (codec.step = "parsed"
     /\ codec.result.kind \in {"Message", "DecryptionFailed"}) =>
        LET d == codec.data
            r == codec.result
            L == AsUsize(SubSeq(d, 13, 16))
            raw == SubSeq(d, 21, 16 + L - 8)
            rest == IF Len(raw) >= 15 /\ SubSeq(raw, 1, 3) = <<51, 46, 51>>
                    THEN SubSeq(raw, 16, Len(raw)) ELSE raw
            dec == decrypt_payload(rest, codec.key)
        IN  IF raw = <<>> \/ rest = <<>>
            THEN r.kind = "Message" /\ r.payload = <<>>
            ELSE IF dec.ok
            THEN r.kind = "Message" /\ r.payload = dec.bytes
            ELSE r.kind = "DecryptionFailed"

\* A reply whose payload section is the tag alone was parsed to an empty
\* Message.
C22_TagAloneParsed ==
    /\ codec.step = "parsed"
    /\ Len(codec.data) = 16 + 4 + 15 + 8
    /\ SubSeq(codec.data, 21, 35) = VERSION_HEADER
    /\ codec.result.kind = "Message"
    /\ codec.result.payload = <<>>

\* C24: parse_frame is total: whatever the buffer, it returns a Message or
\* a ProtocolError and never aborts on an offset out of range.
C24_ParseFrameTotal ==
    codec.step = "parsed" =>
        codec.result.kind \in {"Message", "InvalidPrefix", "InvalidSuffix", "CrcMismatch",
                               "PayloadTooShort", "DecryptionFailed"}

----------------------------------------------------------------------------
(* Start-up (main.rs): load_config reads hearth.toml, connect makes the    *)
(* connection from the Config, and only then the heartbeat task and the    *)
(* tool handlers run.                                                      *)

\* Keys found in the file: one of 16 bytes, and keys of 0, 15 and 17 bytes.
ConfiguredKeys ==
    {OtherKey, <<>>, SubSeq(TestKey, 1, 15), TestKey \o <<103>>}

\* hearth.toml: missing, not parseable, or parsed to a Config.
ConfigFiles ==
    {[state |-> "file", kind |-> k, local_key |-> <<>>, device_id |-> "dev",
      error |-> None] : k \in {"missing", "malformed"}}
    \cup {[state |-> "file", kind |-> "toml", local_key |-> key, device_id |-> "dev",
           error |-> None] : key \in ConfiguredKeys}

\* A check that only refuses keys longer than 16 bytes.
load_config_at_most_16(file) ==
    IF file.kind = "missing" THEN [ok |-> FALSE, error |-> "FileNotFound"]
    ELSE IF file.kind = "malformed" THEN [ok |-> FALSE, error |-> "ParseError"]
    ELSE IF Len(file.local_key) > 16 THEN [ok |-> FALSE, error |-> "InvalidLocalKey"]
    ELSE [ok |-> TRUE, error |-> None]

\* config.rs, lines 30-42.
load_config(file) ==
    IF file.kind = "missing" THEN [ok |-> FALSE, error |-> "FileNotFound"]
    ELSE IF file.kind = "malformed" THEN [ok |-> FALSE, error |-> "ParseError"]
    ELSE IF Len(file.local_key) # 16 THEN [ok |-> FALSE, error |-> "InvalidLocalKey"]
    ELSE [ok |-> TRUE, error |-> None]

\* copy_from_slice into [0u8; 16] aborts when the lengths differ.
local_key_from_config(cfg) ==
    IF Len(cfg.local_key) = 16 THEN [ok |-> TRUE, key |-> cfg.local_key]
    ELSE [ok |-> FALSE, key |-> <<>>]

\* Before connect there is no TuyaConnection and no task.
InitStart ==
    /\ seqno = Word(0)
    /\ local_key = <<>>
    /\ device_id = ""
    /\ holder = None
    /\ waiters = <<>>
    /\ sock = "none"
    /\ tx = <<>>
    /\ rx = <<>>
    /\ pc = [t \in Tasks |-> "off"]
    /\ call = [t \in Tasks |-> NoCall]
    /\ last = NoResult
    /\ ncalls = 0
    /\ handed = <<>>
    /\ written = <<>>
    /\ failed = FALSE
    /\ faults = 0
    /\ abandoned = {}
    /\ fresh = TRUE
    /\ codec = NoCodec
    /\ config \in ConfigFiles
    /\ tool = NoTool

\* main.rs, line 17: an error of load_config ends the program.
LoadConfig ==
    /\ config.state = "file"
    /\ LET r == load_config(config)
       IN  config' = [config EXCEPT !.state = IF r.ok THEN "loaded" ELSE "exit",
                                    !.error = r.error]
    /\ UNCHANGED <<seqno, local_key, device_id, holder, waiters, sock, tx, rx, pc, call,
                   last, ncalls, handed, written, failed, faults, abandoned, fresh,
                   codec, tool>>

\* connect, lines 72-91, then main.rs lines 27-29: the key is copied, the
\* counter starts at 1, and the tasks start.
Connect ==
    /\ config.state = "loaded"
    /\ LET k == local_key_from_config(config)
       IN  IF k.ok
           THEN /\ local_key' = k.key
                /\ device_id' = config.device_id
                /\ seqno' = Word(1)
                /\ sock' = "open"
                /\ pc' = [t \in Tasks |-> "idle"]
                /\ config' = [config EXCEPT !.state = "connected"]
           ELSE /\ config' = [config EXCEPT !.state = "exit", !.error = "Panic"]
                /\ UNCHANGED <<local_key, device_id, seqno, sock, pc>>
    /\ UNCHANGED <<holder, waiters, tx, rx, call, last, ncalls, handed, written, failed,
                   faults, abandoned, fresh, codec, tool>>

\* connect, lines 75-81: the TCP connect fails or takes more than 5 s.
ConnectFail(error) ==
    /\ config.state = "loaded"
    /\ config' = [config EXCEPT !.state = "exit", !.error = error]
    /\ UNCHANGED <<seqno, local_key, device_id, holder, waiters, sock, tx, rx, pc, call,
                   last, ncalls, handed, written, failed, faults, abandoned, fresh,
                   codec, tool>>

NextStart ==
    \/ LoadConfig
    \/ Connect
    \/ \E error \in {"Timeout", "Tcp"} : ConnectFail(error)
    \/ Next

SpecStart == InitStart /\ [][NextStart]_vars

----------------------------------------------------------------------------
(* The set_humidity tool (server.rs): the value is validated by            *)
(* build_target_humidity_dps before set_dps is called.                     *)

\* Values a client may send: below the range, its ends, inside it off the
\* step, and above it.
Humidities == {30, 35, 37, 70, 75}

\* A validation that has lost the test of the step.
build_target_humidity_dps_any_step(value) ==
    IF value < 35 \/ value > 70
    THEN [ok |-> FALSE, error |-> "HumidityOutOfRange"]
    ELSE [ok |-> TRUE, error |-> None]

\* dps.rs, lines 163-168.
build_target_humidity_dps(value) ==
    IF value < 35 \/ value > 70 \/ value % 5 # 0
    THEN [ok |-> FALSE, error |-> "HumidityOutOfRange"]
    ELSE [ok |-> TRUE, error |-> None]

\* server.rs, lines 99-113: the error of the validation is returned as
\* invalid_params through `?`; otherwise set_dps starts a control exchange.
set_humidity(t, humidity) ==
    /\ pc[t] = "idle"
    /\ IF build_target_humidity_dps(humidity).ok
       THEN /\ Begin(t, CMD_CONTROL)
            /\ tool' = [name |-> "set_humidity", humidity |-> humidity,
                        result |-> "set_dps"]
       ELSE /\ tool' = [name |-> "set_humidity", humidity |-> humidity,
                        result |-> "invalid_params"]
            /\ UNCHANGED <<seqno, local_key, device_id, holder, waiters, sock, tx, rx,
                           pc, call, last, ncalls, handed, written, failed, faults,
                           abandoned, fresh, codec, config>>

\* The set_humidity handler next to the heartbeat task.
NextTools ==
    \/ \E humidity \in Humidities : set_humidity("app2", humidity)
    \/ Tick
    \/ \E t \in Tasks : Lock(t)
    \/ \E t \in Tasks : WriteOk(t)
    \/ \E t \in Tasks : WriteFail(t)
    \/ \E t \in Tasks : ReadSome(t)
    \/ \E t \in Tasks : ReadHeader(t)
    \/ \E t \in Tasks : ReadBody(t)
    \/ \E t \in Tasks : ReadEof(t)
    \/ \E t \in Tasks : Timeout(t)
    \/ \E kind \in ReplyKinds : DeviceReply(kind)
    \/ SockReset

SpecTools == Init /\ [][NextTools]_vars

----------------------------------------------------------------------------
(* Properties of the connection layer, continued.                          *)

\* C23 as stated: whenever send_receive returns a Message or a protocol
\* error, it has read 16 header bytes and then the declared number of bytes,
\* and the result is what parse_frame makes of these 16 + declared bytes.
C23_WholeFrameConsumed ==
    last.kind \in {"Ok", "Protocol"} =>
        /\ Len(last.frame) = 16 + AsUsize(U32At(last.frame, 12))
        /\ last.val = parse_frame(last.frame, local_key)

\* C23, amended: a header whose first word is not 00 00 55 AA ends the call
\* with InvalidPrefix after the 16 header bytes, and nothing more is read.
\* In every other case that ends with a Message or a protocol error the call
\* has read 16 bytes and then the declared number of bytes, the result is
\* what parse_frame makes of them, and the bytes that followed them in the
\* stream are still in the socket.
C23_ReadsAnnouncedFrame ==
    /\ [](last.kind \in {"Ok", "Protocol"} =>
            LET f == last.frame
            IN  /\ Len(f) >= 16
                /\ IF SubSeq(f, 1, 4) # <<0, 0, 85, 170>>
                   THEN /\ Len(f) = 16
                        /\ last.val = [kind |-> "InvalidPrefix", word |-> SubSeq(f, 1, 4)]
                   ELSE /\ Len(f) = 16 + AsUsize(SubSeq(f, 13, 16))
                        /\ last.val = parse_frame(f, local_key))
    /\ [][\A t \in Tasks :
            (pc[t] \in {"read_header", "read_body"} /\ pc'[t] = "idle"
             /\ last'.kind \in {"Ok", "Protocol"}) =>
                last'.frame \o Bytes(rx')
                    = Bytes(call[t].header \o call[t].buf \o rx)]_vars

\* A reply that arrived with two more bytes behind it was returned, and the
\* two bytes are still in the socket.
C23_TrailingBytesLeft ==
    /\ last.kind = "Ok"
    /\ Len(last.frame) = 16 + AsUsize(U32At(last.frame, 12))
    /\ Len(last.frame) > 24
    /\ Bytes(rx) = <<0, 0>>

\* C25: load_config refuses every key that is not 16 bytes long with
\* InvalidLocalKey; the key of a connection is the 16 bytes of the Config, and
\* once the connection exists no step changes its key or its device
\* identity.
C25_KeyFixed ==
    /\ [](/\ config.state \in {"loaded", "connected"} => Len(config.local_key) = 16
          /\ (config.kind = "toml" /\ config.state # "file"
              /\ Len(config.local_key) # 16) =>
                 (config.state = "exit" /\ config.error = "InvalidLocalKey")
          /\ config.state = "connected" =>
                 /\ Len(local_key) = 16
                 /\ local_key = config.local_key
                 /\ device_id = config.device_id)
    /\ [][config.state = "connected" =>
            (local_key' = local_key /\ device_id' = device_id /\ config' = config)]_vars

\* Two exchanges were made on a connection with the configured key, one of
\* them answered, and the key is still that key.
C25_KeyKeptAcrossCalls ==
    /\ config.state = "connected"
    /\ local_key = OtherKey
    /\ seqno = Word(3)
    /\ last.kind = "Ok"

\* C26: a set_humidity call with a value outside {35, 40, .., 70} answers
\* invalid_params and changes nothing of the connection: no sequence number
\* is taken, the lock is not asked for, nothing is written; a call with a
\* value of that set starts exactly one control exchange.
C26_RejectedHumidityNoEffect ==
    [][tool' # tool =>
        IF tool'.humidity \in {35, 40, 45, 50, 55, 60, 65, 70}
        THEN /\ tool'.result = "set_dps"
             /\ ncalls' = ncalls + 1
             /\ Len(handed') = Len(handed) + 1
             /\ \E t \in Apps : /\ pc[t] = "idle"
                                /\ pc'[t] = "lock"
                                /\ call'[t].cmd = CMD_CONTROL
                                /\ \A u \in Tasks \ {t} : pc'[u] = pc[u]
        ELSE /\ tool'.result = "invalid_params"
             /\ UNCHANGED <<seqno, holder, waiters, sock, tx, rx, pc, call, last,
                            ncalls, handed, written>>]_vars

\* The value 37 was refused while the heartbeat held the socket, after one
\* sequence number had been handed out.
C26_OffStepRefused ==
    /\ tool = [name |-> "set_humidity", humidity |-> 37, result |-> "invalid_params"]
    /\ holder = Heartbeat
    /\ seqno = Word(2)
    /\ written = <<Word(1)>>

====
